---- MODULE Spec2Model ----
(***************************************************************************)
(* Verification model of the audio sample-processing and container         *)
(* encoding core of Cortador-de-audio (src/src/utils/audioUtils.ts):       *)
(* getProcessedSamples, audioBufferToWav and audioBufferToMp3, and of the   *)
(* components that drive it (src/components/AudioTrimmer.tsx and           *)
(* src/components/Waveform.tsx).                                           *)
(*                                                                         *)
(* Numbers.  Times are rationals tick/TimeDen seconds.  Amplitudes are     *)
(* exact rationals [num, den]; den = 0 stands for NaN (what a read past    *)
(* the end of a Float32Array yields once it is multiplied).  IEEE rounding *)
(* of the products and of the Float32Array store is not modelled: the      *)
(* arithmetic is exact.  All integer conversions (Math.floor, ToInt16,     *)
(* setUint16, little-endian byte splitting) are computed as the engine     *)
(* computes them.                                                          *)
(***************************************************************************)
EXTENDS Integers, Sequences, FiniteSets, TLC

VARIABLES
    buffer,     \* the decoded AudioBuffer handed to the encoders
    pc,         \* "idle": no call in progress; "done": a call has returned or thrown
    call,       \* the arguments of the last encoder call
    ret,        \* what the call returned (a Blob) or that it threw
    ps,         \* the ProcessedSamples getProcessedSamples returned to the call
    dv,         \* audioBufferToWav's DataView bookkeeping: write cursor and write trace
    lameLog,    \* the calls audioBufferToMp3 made on window.lamejs, in order
    codec,      \* how the library at window.lamejs answers (it is not part of the repository)
    encoders,   \* the Mp3Encoder instances constructed so far
    nCalls,     \* the number of encoder calls made so far
    mp3,        \* audioBufferToMp3's locals: its mp3encoder and its mp3Data
    saved,      \* an earlier call and its result, kept by the caller
    trimmer,    \* the state of the AudioTrimmer component
    sound,      \* the Audio.Sound of AudioTrimmer and its status callback
    gallery,    \* the files downloadProcessedAudio has saved
    waveform,   \* the state of the Waveform component and of its parent
    app         \* the state of the App component and the decode it awaits

coreVars == <<buffer, pc, call, ret, ps, dv, lameLog, codec, encoders, nCalls, mp3, saved>>
uiVars == <<trimmer, sound, gallery, waveform, app>>
vars == <<coreVars, uiVars>>

---------------------------------------------------------------------------
(* Bounds of the model *)

MaxRate == 4          \* sample rates 1..MaxRate Hz
MaxChannels == 3      \* channel counts 1..MaxChannels
MaxTick == 5          \* optStart, optEnd in 0..MaxTick ticks
MaxFadeTick == 2      \* fade durations in 0..MaxFadeTick ticks
TimeDen == 4          \* ticks per second
AmpDen == 4           \* source amplitudes are multiples of 1/AmpDen
BlockTicks == 4       \* optEnd in 0..BlockTicks ticks in the block-level specification
MaxLameCalls == 4     \* the compressor may return nothing or throw at calls 1..MaxLameCalls
MaxCalls == 3         \* encoder calls in a row in the specification of repeated calls
MaxRegionTick == 3    \* the duration, in ticks, of the file AudioTrimmer is mounted on

---------------------------------------------------------------------------
(* Arithmetic helpers *)

Min(a, b) == IF a < b THEN a ELSE b

\* floor(a*b/c) for 0 <= a, 0 <= b, 0 < c, without forming a*b.
RECURSIVE MulDivRem(_, _, _)
MulDivRem(a, b, c) ==
    IF b = 0 THEN <<0, 0>>
    ELSE LET h == MulDivRem(a, b \div 2, c)
             r2 == 2 * h[2] + (b % 2) * (a % c)
             q2 == 2 * h[1] + (b % 2) * (a \div c)
         IN <<q2 + (r2 \div c), r2 % c>>

MulDiv(a, b, c) == IF a <= 65535 THEN (a * b) \div c ELSE MulDivRem(a, b, c)[1]

\* Rationals [num, den] with den > 0; den = 0 is NaN.
Rat(n, d) == [num |-> n, den |-> d]
NaN == Rat(0, 0)
IsNaN(x) == x.den = 0
RatMul(x, y) == IF IsNaN(x) \/ IsNaN(y) THEN NaN ELSE Rat(x.num * y.num, x.den * y.den)

---------------------------------------------------------------------------
(* The AudioBuffer *)

\* Sample content: each channel repeats one of these waveforms (numerators over
\* AmpDen; 6/4 = 1.5 and -6/4 = -1.5 lie outside [-1, 1]).
Waves == << <<6, -6, 2, -3, 0, 4, -4>>,
            <<-4, 3, 6, -1, -6, 0, 1>>,
            <<1, -2, 4, 6, -6, -3, 3>> >>

WaveLen == Len(Waves[1])

WaveChoices(n) ==
    { w \in [1..n -> 1..Len(Waves)] :
        /\ w[1] = 1
        /\ n >= 2 => w[2] = 2
        /\ \A c \in 3..n : w[c] \in {1, 3} }

\* stores: the stores made into the channel data since it was decoded, each
\* [c, j, v] for channel c (1-based), index j, value v.
AudioBuffer(rate, n, len, w) ==
    [sampleRate |-> rate, numberOfChannels |-> n, length |-> len, waves |-> w, stores |-> <<>>]

\* One-second buffers of every rate and channel count.
Buffers ==
    UNION { { AudioBuffer(rate, n, rate, w) : w \in WaveChoices(n) } :
                rate \in 1..MaxRate, n \in 1..MaxChannels }

\* buffer.getChannelData(c)[j] as the loop reads it: c in 1..numberOfChannels,
\* j the 0-based index; an index outside the array reads undefined, which the
\* multiplication turns into NaN.
rawDataAt(b, c, j) ==
    LET hits == { k \in 1..Len(b.stores) : b.stores[k].c = c /\ b.stores[k].j = j }
        last == CHOOSE k \in hits : \A m \in hits : m <= k
    IN IF j < 0 \/ j >= b.length THEN NaN
       ELSE IF hits # {} THEN b.stores[last].v
       ELSE Rat(Waves[b.waves[c]][(j % WaveLen) + 1], AmpDen)

---------------------------------------------------------------------------
(* getProcessedSamples *)

\* Math.floor(t * sampleRate) for a time of t ticks.
floorFrames(t, rate) == (t * rate) \div TimeDen

\* Mutant: the end offset taken as inclusive.
frameCountOf_inclusive(startOffset, endOffset) == endOffset - startOffset + 1

frameCountOf(startOffset, endOffset) == endOffset - startOffset

\* Mutant: the ramp starts at 1/fadeInSamples instead of 0.
fadeInMultiplier_fromOne(i, fadeInSamples) ==
    IF i < fadeInSamples /\ fadeInSamples > 0 THEN Rat(i + 1, fadeInSamples) ELSE Rat(1, 1)

\* The fade-in branch: sets the multiplier.
fadeInMultiplier(i, fadeInSamples) ==
    IF i < fadeInSamples /\ fadeInSamples > 0 THEN Rat(i, fadeInSamples) ELSE Rat(1, 1)

\* Mutant: the fade-out ramp overrides the fade-in ramp instead of multiplying it.
fadeOutMultiplier_override(multiplier, i, frameCount, fadeOutSamples) ==
    IF frameCount - 1 - i < fadeOutSamples /\ fadeOutSamples > 0
    THEN Rat(frameCount - 1 - i, fadeOutSamples)
    ELSE multiplier

\* The fade-out branch: multiplies the multiplier it is given.
fadeOutMultiplier(multiplier, i, frameCount, fadeOutSamples) ==
    LET distFromEnd == frameCount - 1 - i
    IN IF distFromEnd < fadeOutSamples /\ fadeOutSamples > 0
       THEN RatMul(multiplier, Rat(distFromEnd, fadeOutSamples))
       ELSE multiplier

fadeMultiplier(i, frameCount, fadeInSamples, fadeOutSamples) ==
    fadeOutMultiplier(fadeInMultiplier(i, fadeInSamples), i, frameCount, fadeOutSamples)

\* Mutant: no clamping.
clamp_none(x) == x

\* Math.max(-1, Math.min(1, x)); NaN passes through both.
clamp(x) ==
    IF IsNaN(x) THEN NaN
    ELSE IF x.num > x.den THEN Rat(1, 1)
    ELSE IF x.num < -x.den THEN Rat(-1, 1)
    ELSE x

processedSample(b, c, i, startOffset, frameCount, fadeInSamples, fadeOutSamples) ==
    clamp(RatMul(rawDataAt(b, c, startOffset + i),
                 fadeMultiplier(i, frameCount, fadeInSamples, fadeOutSamples)))

NoSamples ==
    [processedChannels |-> <<>>, frameCount |-> 0, sampleRate |-> 0, numChannels |-> 0]

\* Mutant: the output array is a view of the source's channel data.
newFloat32Array_view(frameCount) == [fresh |-> FALSE, length |-> frameCount]

\* const outputData = new Float32Array(frameCount): storage of its own.
newFloat32Array(frameCount) == [fresh |-> TRUE, length |-> frameCount]

\* The channel data after the loops have stored their results in outputData:
\* stores into an array with storage of its own leave it as it was.
RECURSIVE storeLoop(_, _, _, _, _, _)
storeLoop(b, outputData, processedChannels, startOffset, c, i) ==
    IF outputData.fresh \/ c > Len(processedChannels) THEN b
    ELSE IF i >= outputData.length
         THEN storeLoop(b, outputData, processedChannels, startOffset, c + 1, 0)
         ELSE storeLoop([b EXCEPT !.stores =
                            Append(@, [c |-> c, j |-> startOffset + i,
                                       v |-> processedChannels[c][i + 1]])],
                        outputData, processedChannels, startOffset, c, i + 1)

\* threw: new Float32Array(frameCount) raises RangeError for a negative length.
\* source: the buffer as the call leaves it.
getProcessedSamples(b, optStart, optEnd, fadeInDuration, fadeOutDuration) ==
    LET startOffset == floorFrames(optStart, b.sampleRate)
        endOffset == floorFrames(optEnd, b.sampleRate)
        frameCount == frameCountOf(startOffset, endOffset)
        numChannels == b.numberOfChannels
        sampleRate == b.sampleRate
        fadeInSamples == floorFrames(fadeInDuration, sampleRate)
        fadeOutSamples == floorFrames(fadeOutDuration, sampleRate)
        processedChannels ==
            [c \in 1..numChannels |->
                [k \in 1..frameCount |->
                    processedSample(b, c, k - 1, startOffset, frameCount,
                                    fadeInSamples, fadeOutSamples)]]
    IN IF numChannels > 0 /\ frameCount < 0
       THEN [threw |-> TRUE, value |-> NoSamples, source |-> b]
       ELSE [threw |-> FALSE,
             value |->
               [processedChannels |-> processedChannels,
                frameCount |-> frameCount,
                sampleRate |-> sampleRate,
                numChannels |-> numChannels],
             source |-> storeLoop(b, newFloat32Array(frameCount), processedChannels,
                                  startOffset, 1, 0)]

---------------------------------------------------------------------------
(* 16-bit quantization *)

\* ToInt16 of an integer: wrap modulo 2^16 into [-32768, 32767].
ToInt16(v) == ((v + 32768) % 65536) - 32768

\* sample < 0 ? sample * 0x8000 : sample * 0x7FFF, stored through setInt16:
\* truncated toward zero, then wrapped; NaN is stored as 0.
wavIntSample(sample) ==
    IF IsNaN(sample) THEN 0
    ELSE IF sample.num < 0
         THEN ToInt16(-MulDiv(-sample.num, 32768, sample.den))
         ELSE ToInt16(MulDiv(sample.num, 32767, sample.den))

\* Mutant: symmetric quantization, 0x7FFF on both sides.
mp3IntSample_symmetric(s) ==
    IF IsNaN(clamp(s)) THEN 0
    ELSE IF clamp(s).num < 0
         THEN ToInt16(-MulDiv(-clamp(s).num, 32767, clamp(s).den))
         ELSE ToInt16(MulDiv(clamp(s).num, 32767, clamp(s).den))

\* clamped < 0 ? clamped * 0x8000 : clamped * 0x7FFF, stored into an Int16Array.
mp3IntSample(s) ==
    LET clamped == clamp(s)
    IN IF IsNaN(clamped) THEN 0
       ELSE IF clamped.num < 0
            THEN ToInt16(-MulDiv(-clamped.num, 32768, clamped.den))
            ELSE ToInt16(MulDiv(clamped.num, 32767, clamped.den))

---------------------------------------------------------------------------
(* audioBufferToWav *)

\* A DataView over an ArrayBuffer: view[k] is the byte at offset k - 1.
newArrayBuffer(totalSize) == [k \in 1..totalSize |-> 0]

setBytes(view, offset, bytes) ==
    [k \in 1..Len(view) |->
        IF k - 1 >= offset /\ k - 1 < offset + Len(bytes) THEN bytes[k - offset] ELSE view[k]]

\* writeString: one setUint8 per character code.
writeString(view, offset, codes) == setBytes(view, offset, [k \in 1..Len(codes) |-> codes[k] % 256])

\* setUint16(offset, v, true) and setInt16(offset, v, true): v modulo 2^16, low byte first.
setUint16(view, offset, v) ==
    LET u == v % 65536 IN setBytes(view, offset, <<u % 256, u \div 256>>)

\* setUint32(offset, v, true): low byte first (v modulo 2^32 is v for the v of this model).
setUint32(view, offset, v) ==
    setBytes(view, offset,
             <<v % 256, (v \div 256) % 256, (v \div 65536) % 256, (v \div 16777216) % 256>>)

\* Mutant: the RIFF chunk size taken to be the whole file size.
riffChunkSize_total(dataSize) == 44 + dataSize

\* Header arithmetic.
riffChunkSize(dataSize) == 36 + dataSize
blockAlignOf(numChannels) == numChannels * (16 \div 8)
byteRateOf(sampleRate, blockAlign) == sampleRate * blockAlign
dataSizeOf(frameCount, blockAlign) == frameCount * blockAlign

wavHeader(view, sampleRate, numChannels, frameCount) ==
    LET blockAlign == blockAlignOf(numChannels)
        byteRate == byteRateOf(sampleRate, blockAlign)
        dataSize == dataSizeOf(frameCount, blockAlign)
        v1 == writeString(view, 0, <<82, 73, 70, 70>>)          \* "RIFF"
        v2 == setUint32(v1, 4, riffChunkSize(dataSize))
        v3 == writeString(v2, 8, <<87, 65, 86, 69>>)            \* "WAVE"
        v4 == writeString(v3, 12, <<102, 109, 116, 32>>)        \* "fmt "
        v5 == setUint32(v4, 16, 16)
        v6 == setUint16(v5, 20, 1)
        v7 == setUint16(v6, 22, numChannels)
        v8 == setUint32(v7, 24, sampleRate)
        v9 == setUint32(v8, 28, byteRate)
        v10 == setUint16(v9, 32, blockAlign)
        v11 == setUint16(v10, 34, 16)
        v12 == writeString(v11, 36, <<100, 97, 116, 97>>)       \* "data"
    IN setUint32(v12, 40, dataSize)

\* One pass of the inner loop body: write the sample of frame i, channel c at the
\* cursor and advance the cursor.
writeSample(st, processedChannels, i, c) ==
    [view |-> setUint16(st.view, st.offset, wavIntSample(processedChannels[c + 1][i + 1])),
     offset |-> st.offset + 2,
     writes |-> Append(st.writes, [offset |-> st.offset, i |-> i, c |-> c])]

RECURSIVE channelLoop(_, _, _, _, _)
channelLoop(st, processedChannels, i, c, numChannels) ==
    IF c < numChannels
    THEN channelLoop(writeSample(st, processedChannels, i, c), processedChannels, i, c + 1, numChannels)
    ELSE st

\* Mutant: planar order, all frames of channel 0, then all frames of channel 1, ...
RECURSIVE frameLoop_planar(_, _, _, _, _)
frameLoop_planar(st, processedChannels, n, frameCount, numChannels) ==
    IF n < frameCount * numChannels
    THEN frameLoop_planar(writeSample(st, processedChannels, n % frameCount, n \div frameCount),
                          processedChannels, n + 1, frameCount, numChannels)
    ELSE st

RECURSIVE frameLoop(_, _, _, _, _)
frameLoop(st, processedChannels, i, frameCount, numChannels) ==
    IF i < frameCount
    THEN frameLoop(channelLoop(st, processedChannels, i, 0, numChannels),
                   processedChannels, i + 1, frameCount, numChannels)
    ELSE st

NoView == [offset |-> 0, writes |-> <<>>]
NoRet == [kind |-> "none", type |-> "", bytes |-> <<>>]
Threw(name) == [kind |-> "throw", type |-> name, bytes |-> <<>>]
Blob(bytes, type) == [kind |-> "blob", type |-> type, bytes |-> bytes]

\* No compressor instance, no chunk.
NoMp3 == [encoder |-> 0, mp3Data |-> <<>>]

\* Mutant: the write cursor is shared by the calls and is left where the last
\* kept WAV ended.
bodyOffset_shared ==
    IF saved.ret.kind = "blob" /\ saved.call.fn = "wav" THEN Len(saved.ret.bytes) ELSE 44

\* let offset = 44: the cursor of the body loop, a local of the call.
bodyOffset == 44

audioBufferToWav(b, optStart, optEnd, fadeInDuration, fadeOutDuration) ==
    LET got == getProcessedSamples(b, optStart, optEnd, fadeInDuration, fadeOutDuration)
        s == got.value
        headerSize == 44
        totalSize == headerSize + dataSizeOf(s.frameCount, blockAlignOf(s.numChannels))
        header == wavHeader(newArrayBuffer(totalSize), s.sampleRate, s.numChannels, s.frameCount)
        done == frameLoop([view |-> header, offset |-> bodyOffset, writes |-> <<>>],
                          s.processedChannels, 0, s.frameCount, s.numChannels)
    IN IF got.threw
       THEN [ret |-> Threw("RangeError"), ps |-> NoSamples, dv |-> NoView, lameLog |-> <<>>,
             buffer |-> got.source, mp3 |-> NoMp3, encoders |-> encoders]
       ELSE IF done.offset > totalSize
       THEN [ret |-> Threw("RangeError"), ps |-> s, dv |-> NoView, lameLog |-> <<>>,
             buffer |-> got.source, mp3 |-> NoMp3, encoders |-> encoders]
       ELSE [ret |-> Blob(done.view, "audio/wav"),
             ps |-> s,
             dv |-> [offset |-> done.offset, writes |-> done.writes],
             lameLog |-> <<>>,
             buffer |-> got.source,
             mp3 |-> NoMp3,
             encoders |-> encoders]

---------------------------------------------------------------------------
(* audioBufferToMp3 *)

blockSize == 1152

\* typedArray.subarray(begin, end) for 0 <= begin <= end: both ends are clamped
\* to the array's length.
subarray(arr, begin, end) == SubSeq(arr, Min(begin, Len(arr)) + 1, Min(end, Len(arr)))

\* The calls made on window.lamejs.  i is the loop index of the submission.
LameNew(channels, sampleRate, kbps) ==
    [op |-> "new", ctor |-> <<channels, sampleRate, kbps>>,
     left |-> <<>>, hasRight |-> FALSE, right |-> <<>>, i |-> 0]
LameEncodeBuffer(left, hasRight, right, i) ==
    [op |-> "encodeBuffer", ctor |-> <<>>,
     left |-> left, hasRight |-> hasRight, right |-> right, i |-> i]
LameFlush ==
    [op |-> "flush", ctor |-> <<>>, left |-> <<>>, hasRight |-> FALSE, right |-> <<>>, i |-> 0]

\* Mutant: every source channel is encoded.
encodingChannelsOf_all(numChannels) == numChannels

encodingChannelsOf(numChannels) == Min(numChannels, 2)

\* Convert Float32 samples to Int16, one Int16Array per encoded channel.
sampleDataOf(processedChannels, encodingChannels) ==
    [c \in 1..encodingChannels |->
        [k \in 1..Len(processedChannels[c]) |-> mp3IntSample(processedChannels[c][k])]]

\* Mutant: only whole blocks are submitted.
moreBlocks_whole(i, frameCount) == i + 1152 <= frameCount

\* The loop's test and step.
moreBlocks(i, frameCount) == i < frameCount
nextBlock(i) == i + blockSize

\* What one pass of the loop hands to encodeBuffer.
blockOf(sampleData, encodingChannels, i) ==
    LameEncodeBuffer(subarray(sampleData[1], i, i + blockSize),
                     encodingChannels > 1,
                     IF encodingChannels > 1
                     THEN subarray(sampleData[2], i, i + blockSize)
                     ELSE <<>>,
                     i)

RECURSIVE encodeLoop(_, _, _, _, _)
encodeLoop(log, sampleData, encodingChannels, frameCount, i) ==
    IF moreBlocks(i, frameCount)
    THEN encodeLoop(Append(log, blockOf(sampleData, encodingChannels, i)),
                    sampleData, encodingChannels, frameCount, nextBlock(i))
    ELSE log

\* The library at window.lamejs is not part of the repository.  An instance is
\* taken to answer its n-th call (encodeBuffer and flush counted together) by
\* throwing when n is the codec's failAt, by an empty buffer when n is in the
\* codec's emptyAt, and otherwise by bytes that tell n and the block's length.
LameThrows(cd, n) == cd.failAt = n
LameOutput(cd, n, entry) ==
    IF n \in cd.emptyAt THEN <<>> ELSE <<n % 256, Len(entry.left) % 256>>

\* Mutant: one compressor instance is shared by every call.
newMp3Encoder_shared(heap, ctor, who) ==
    IF heap = <<>>
    THEN [id |-> 1, heap |-> <<[ctor |-> ctor, calls |-> 0, owner |-> who, users |-> {}]>>]
    ELSE [id |-> 1, heap |-> heap]

\* new window.lamejs.Mp3Encoder(...): a new instance, owned by the call who.
newMp3Encoder(heap, ctor, who) ==
    [id |-> Len(heap) + 1,
     heap |-> Append(heap, [ctor |-> ctor, calls |-> 0, owner |-> who, users |-> {}])]

\* Mutant: the newest chunk is put in front.
pushChunk_front(mp3Data, mp3buf) ==
    IF Len(mp3buf) > 0 THEN <<mp3buf>> \o mp3Data ELSE mp3Data

\* if (mp3buf.length > 0) mp3Data.push(mp3buf)
pushChunk(mp3Data, mp3buf) ==
    IF Len(mp3buf) > 0 THEN Append(mp3Data, mp3buf) ELSE mp3Data

\* new Blob(mp3Data, ...): the chunks' bytes, one chunk after the other.
RECURSIVE concatChunks(_)
concatChunks(mp3Data) ==
    IF mp3Data = <<>> THEN <<>> ELSE Head(mp3Data) \o concatChunks(Tail(mp3Data))

\* Mutant: the failure is swallowed and what was accumulated is returned.
mp3Return_partial(threw, mp3Data) == Blob(concatChunks(mp3Data), "audio/mp3")

\* What the call comes to: an exception of the compressor is not caught.
mp3Return(threw, mp3Data) ==
    IF threw THEN Threw("LameError") ELSE Blob(concatChunks(mp3Data), "audio/mp3")

\* The calls calls[k], calls[k+1], ... made one after the other on instance
\* st.id; the run ends at the first call that throws.
RECURSIVE lameRun(_, _, _, _)
lameRun(cd, calls, k, st) ==
    IF k > Len(calls) THEN st
    ELSE LET n == st.heap[st.id].calls + 1
             made == [st EXCEPT !.heap[st.id].calls = n,
                                !.heap[st.id].users = @ \cup {st.who},
                                !.log = Append(@, calls[k])]
         IN IF LameThrows(cd, n)
            THEN [made EXCEPT !.threw = TRUE]
            ELSE lameRun(cd, calls, k + 1,
                         [made EXCEPT !.mp3Data = pushChunk(@, LameOutput(cd, n, calls[k]))])

\* Mutant: the library is not looked for.
lamejsMissing_unchecked(lamejs) == FALSE

\* if (!window.lamejs)
lamejsMissing(lamejs) == ~lamejs

\* Mutant: nothing to flush when no block was submitted.
lameCalls_flushIfAny(s) ==
    LET encodingChannels == encodingChannelsOf(s.numChannels)
        sampleData == sampleDataOf(s.processedChannels, encodingChannels)
        created == <<LameNew(encodingChannels, s.sampleRate, 128)>>
        encoded == encodeLoop(created, sampleData, encodingChannels, s.frameCount, 0)
    IN IF s.frameCount > 0 THEN Append(encoded, LameFlush) ELSE encoded

\* The encoder's whole conversation with the compressor: construction, the
\* block loop, flush.
lameCalls(s) ==
    LET encodingChannels == encodingChannelsOf(s.numChannels)
        sampleData == sampleDataOf(s.processedChannels, encodingChannels)
        created == <<LameNew(encodingChannels, s.sampleRate, 128)>>
        encoded == encodeLoop(created, sampleData, encodingChannels, s.frameCount, 0)
    IN Append(encoded, LameFlush)

\* window.lamejs is global: the call reads the codec, the instances made so
\* far and its own number in the sequence of calls from the state.  Without
\* the library, new window.lamejs.Mp3Encoder raises TypeError.
audioBufferToMp3(b, lamejs, optStart, optEnd, fadeInDuration, fadeOutDuration) ==
    LET got == getProcessedSamples(b, optStart, optEnd, fadeInDuration, fadeOutDuration)
        calls == lameCalls(got.value)
        made == newMp3Encoder(encoders, calls[1].ctor, nCalls + 1)
        run == lameRun(codec, calls, 2,
                       [heap |-> made.heap, id |-> made.id, who |-> nCalls + 1,
                        log |-> <<calls[1]>>, mp3Data |-> <<>>, threw |-> FALSE])
    IN IF lamejsMissing(lamejs)
       THEN [ret |-> Threw("Error"), ps |-> NoSamples, dv |-> NoView, lameLog |-> <<>>,
             buffer |-> b, mp3 |-> NoMp3, encoders |-> encoders]
       ELSE IF got.threw
       THEN [ret |-> Threw("RangeError"), ps |-> NoSamples, dv |-> NoView, lameLog |-> <<>>,
             buffer |-> got.source, mp3 |-> NoMp3, encoders |-> encoders]
       ELSE IF ~lamejs
       THEN [ret |-> Threw("TypeError"), ps |-> got.value, dv |-> NoView, lameLog |-> <<>>,
             buffer |-> got.source, mp3 |-> NoMp3, encoders |-> encoders]
       ELSE [ret |-> mp3Return(run.threw, run.mp3Data),
             ps |-> got.value,
             dv |-> NoView,
             lameLog |-> run.log,
             buffer |-> got.source,
             mp3 |-> [encoder |-> made.id, mp3Data |-> run.mp3Data],
             encoders |-> run.heap]

---------------------------------------------------------------------------
(* src/components/AudioTrimmer.tsx.  Times are in ticks, as above.          *)

\* What a file holds: the bytes of the file at audioData.uri, or what an
\* encoder returned for a range and a pair of fades.
SourceFile ==
    [kind |-> "source", fn |-> "none", optStart |-> 0, optEnd |-> 0,
     fadeInDuration |-> 0, fadeOutDuration |-> 0]
EncodedFile(fn, optStart, optEnd, fadeInDuration, fadeOutDuration) ==
    [kind |-> "encoded", fn |-> fn, optStart |-> optStart, optEnd |-> optEnd,
     fadeInDuration |-> fadeInDuration, fadeOutDuration |-> fadeOutDuration]

\* The fade buttons switch a fade between 0 and 2 seconds.
fadeSeconds == 2
toggleFade(prev) == IF prev > 0 THEN 0 ELSE fadeSeconds * TimeDen

\* The component as first rendered for a file of the given duration; hasUri:
\* audioData.uri is not empty.
AudioTrimmer(duration, hasUri) ==
    [duration |-> duration,
     hasUri |-> hasUri,
     isPlaying |-> FALSE,
     region |-> [start |-> 0, end |-> duration],
     currentTime |-> 0,
     fadeInDuration |-> 0,
     fadeOutDuration |-> 0,
     exportFormat |-> "mp3",
     processing |-> FALSE,
     alert |-> "none",
     download |-> "none"]

\* soundRef.current and the callback loadSound installs.  loadSound runs once,
\* from the effect of the first render, so the region its callback reads is the
\* region of the first render.
NoSound(tr) ==
    [loaded |-> FALSE, position |-> 0, shouldPlay |-> FALSE, region |-> tr.region]

loadSound(snd) == [snd EXCEPT !.loaded = TRUE]

\* The callback of setOnPlaybackStatusUpdate, for a loaded status at position p.
onPlaybackStatusUpdate(tr, snd, p) ==
    LET seconds == p
        region == snd.region
    IN [trimmer |->
            [tr EXCEPT !.currentTime = seconds,
                       !.isPlaying = IF seconds >= region.end /\ ~snd.shouldPlay
                                     THEN FALSE ELSE @],
        sound |->
            [snd EXCEPT !.position = IF seconds >= region.end THEN region.start ELSE p]]

togglePlayback(tr, snd) ==
    IF ~snd.loaded THEN [trimmer |-> tr, sound |-> snd]
    ELSE IF tr.isPlaying
    THEN [trimmer |-> [tr EXCEPT !.isPlaying = FALSE],
          sound |-> [snd EXCEPT !.shouldPlay = FALSE]]
    ELSE [trimmer |-> [tr EXCEPT !.isPlaying = TRUE],
          sound |->
            [snd EXCEPT !.position =
                            IF tr.currentTime >= tr.region.end \/ tr.currentTime < tr.region.start
                            THEN tr.region.start ELSE @,
                        !.shouldPlay = TRUE]]

handleSeek(tr, snd, time) ==
    IF snd.loaded
    THEN [trimmer |-> [tr EXCEPT !.currentTime = time],
          sound |-> [snd EXCEPT !.position = time]]
    ELSE [trimmer |-> tr, sound |-> snd]

\* saveToGallery(fileUri, filename): the files that leave the app, given the
\* platform, whether createAssetAsync succeeds, and whether the user then
\* taps Compartir.  content is what the file at fileUri holds.
saveToGallery(content, ext, platform, assetOk, share) ==
    LET asset == [ext |-> ext, content |-> content, via |-> "gallery"]
        shared == [ext |-> ext, content |-> content, via |-> "share"]
    IN IF platform = "android"
       THEN (IF assetOk THEN {asset} ELSE {}) \cup (IF share THEN {shared} ELSE {})
       ELSE IF platform = "ios"
       THEN (IF assetOk THEN {asset} ELSE IF share THEN {shared} ELSE {})
       ELSE {}

\* downloadProcessedAudio from its first await on: the files that leave the
\* app.  The file written to the cache is a copy of the file at audioData.uri;
\* tr.download is the exportFormat of the render the call was made from.
downloadProcessedAudio(tr, permission, srcExists, copyOk, copyExists, platform, assetOk, share) ==
    IF ~permission THEN {}
    ELSE IF ~tr.hasUri THEN {}
    ELSE IF ~srcExists THEN {}
    ELSE IF ~copyOk THEN {}
    ELSE IF ~copyExists THEN {}
    ELSE saveToGallery(SourceFile, tr.download, platform, assetOk, share)

\* Mutant: no finally block.
finallyBlock_missing == <<>>

\* finally { setProcessing(false) }: the setProcessing calls it makes.
finallyBlock == <<FALSE>>

\* The setProcessing calls downloadProcessedAudio makes from its first await
\* on, in order: the one before each return, none on a throw (copy failure,
\* copied file missing) or on reaching the end (saveToGallery catches its own
\* failures), then the finally block's.
setProcessingCalls(tr, permission, srcExists, copyOk, copyExists) ==
    IF ~permission THEN <<FALSE>> \o finallyBlock
    ELSE IF ~tr.hasUri THEN <<FALSE>> \o finallyBlock
    ELSE IF ~srcExists THEN <<FALSE>> \o finallyBlock
    ELSE IF ~copyOk THEN finallyBlock
    ELSE IF ~copyExists THEN finallyBlock
    ELSE finallyBlock

\* The processing state after a sequence of setProcessing calls.
setProcessing(prev, calls) == IF calls = <<>> THEN prev ELSE calls[Len(calls)]

---------------------------------------------------------------------------
(* src/components/Waveform.tsx.  Pointer positions are in pixels; times are *)
(* in units of 1/(4*canvasWidth) second, so that (x / width) * duration is   *)
(* a whole number of units for the durations of the model.                   *)

canvasWidth == 120
HIT_THRESHOLD == 30

\* const minDuration = 0.5
minDuration == 2 * canvasWidth

\* buffer.duration: 0.25 s, 0.5 s, 0.75 s, 2 s.
WaveDurations == { canvasWidth, 2 * canvasWidth, 3 * canvasWidth, 8 * canvasWidth }

\* e.clientX - rect.left: every tenth pixel, from left of the canvas to right of it.
PointerXs == { 10 * k : k \in (-2)..((canvasWidth \div 10) + 2) }

Abs(v) == IF v < 0 THEN -v ELSE v
Max(a, b) == IF a > b THEN a ELSE b

\* (x / width) * duration
timeAt(x, duration) == (x * duration) \div canvasWidth

\* The component and its parent: region is the prop, which the parent sets to
\* what onRegionChange is given; emitted tells that onRegionChange was called;
\* seek is what onSeek was last given (-1: never called).
Waveform(duration) ==
    [duration |-> duration,
     region |-> [start |-> 0, end |-> duration],
     dragTarget |-> "null",
     emitted |-> FALSE,
     seek |-> -1]

\* Both distances are compared scaled by duration: startPx is
\* (region.start / duration) * width.
handlePointerDown(w, x) ==
    LET distStart == Abs(x * w.duration - w.region.start * canvasWidth)
        distEnd == Abs(x * w.duration - w.region.end * canvasWidth)
        target == IF distStart < HIT_THRESHOLD * w.duration /\ distStart <= distEnd
                  THEN "start"
                  ELSE IF distEnd < HIT_THRESHOLD * w.duration THEN "end" ELSE "null"
    IN IF target # "null"
       THEN [w EXCEPT !.dragTarget = target]
       ELSE [w EXCEPT !.seek = Min(Max(0, timeAt(x, w.duration)), w.duration)]

handlePointerMove(w, x) ==
    LET newTime == Max(0, Min(timeAt(x, w.duration), w.duration))
    IN IF w.dragTarget = "null" THEN w
       ELSE IF w.dragTarget = "start"
       THEN LET maxStart == w.region.end - minDuration
                finalStart == Min(newTime, maxStart)
            IN [w EXCEPT !.region = [start |-> finalStart, end |-> w.region.end],
                         !.emitted = TRUE]
       ELSE LET minEnd == w.region.start + minDuration
                finalEnd == Max(newTime, minEnd)
            IN [w EXCEPT !.region = [start |-> w.region.start, end |-> finalEnd],
                         !.emitted = TRUE]

handlePointerUp(w) == [w EXCEPT !.dragTarget = "null"]

---------------------------------------------------------------------------
(* src/App.tsx.  A value that may be null is a sequence: empty for null,    *)
(* one element otherwise.  State updates made in one event or one           *)
(* continuation are applied together (the root is made by createRoot).      *)

Null == <<>>
Some(v) == <<v>>

\* A File: its name and its type.  The type is kept in pieces, the first
\* running up to and including its slash, so that startsWith('audio/') can be
\* computed: "audio/mpeg" is <<"audio/", "mpeg">>, "" is <<>>.
File(name, type) == [name |-> name, type |-> type]

validTypes ==
    { <<"audio/", "mpeg">>, <<"audio/", "wav">>, <<"audio/", "x-m4a">>,
      <<"audio/", "ogg">>, <<"audio/", "flac">>, <<"audio/", "mp4">> }

\* file.type.startsWith('audio/')
startsWith_audio(type) == Len(type) > 0 /\ type[1] = "audio/"

\* e.target.files / e.dataTransfer.files: null and the empty list are both <<>>.
FileTypes ==
    { <<"audio/", "mpeg">>, <<"audio/", "wav">>, <<"audio/", "aiff">>,
      <<"video/", "mp4">>, <<>> }
Files == { File(name, type) : name \in {"clip", "take"}, type \in FileTypes }
FileLists ==
    {Null} \cup { <<f>> : f \in Files }
           \cup { <<f, File("other", <<"audio/", "ogg">>)>> : f \in Files }

\* What decodeAudioFile may resolve with.
DecodedBuffers ==
    UNION { { AudioBuffer(TimeDen, n, len * TimeDen, w) : w \in WaveChoices(n) } :
                n \in 1..MaxChannels, len \in 1..MaxRegionTick }

\* buffer.duration, in ticks
durationOf(b) == (b.length * TimeDen) \div b.sampleRate

\* The component as first rendered.  decoding: the file of the handleFiles
\* call that awaits decodeAudioFile, null when there is none.
App ==
    [status |-> "IDLE",
     audioState |-> Null,
     dragActive |-> FALSE,
     errorMsg |-> Null,
     decoding |-> Null]

\* What is rendered: the drop zone with the file input, the spinner, or
\* AudioTrimmer with onReset.
dropZoneShown(a) == a.status = "IDLE" \/ a.status = "ERROR"
trimmerShown(a) == ~dropZoneShown(a) /\ a.status # "LOADING" /\ a.audioState # Null

\* Mutant: the rejected file also puts the app in the ERROR status.
rejectFile_error(a) ==
    [a EXCEPT !.errorMsg = Some("Formato de archivo no soportado. Intente mp3, wav, ogg."),
              !.status = "ERROR"]

rejectFile(a) ==
    [a EXCEPT !.errorMsg = Some("Formato de archivo no soportado. Intente mp3, wav, ogg.")]

\* The catch block of handleFiles.
catchDecode(a) ==
    [a EXCEPT !.errorMsg = Some("Error al decodificar el audio. El archivo podría estar corrupto."),
              !.status = "ERROR",
              !.decoding = Null]

\* handleFiles up to its await.  contextOk: the AudioContext constructor
\* returns; when it throws, the catch block runs in the same call.
handleFiles(a, files, contextOk) ==
    IF files = Null THEN a
    ELSE LET file == files[1]
             loading == [a EXCEPT !.status = "LOADING", !.errorMsg = Null]
         IN IF ~startsWith_audio(file.type) /\ file.type \notin validTypes
            THEN rejectFile(a)
            ELSE IF contextOk
            THEN [loading EXCEPT !.decoding = Some(file)]
            ELSE catchDecode(loading)

\* handleFiles from its await on, decodeAudioFile having resolved with b.
decodeResolved(a, b) ==
    LET file == a.decoding[1]
    IN [a EXCEPT !.audioState = Some([file |-> file, buffer |-> b,
                                      fileName |-> file.name, duration |-> durationOf(b)]),
                 !.status = "READY",
                 !.decoding = Null]

handleDrop(a, files, contextOk) ==
    LET left == [a EXCEPT !.dragActive = FALSE]
    IN IF files # Null THEN handleFiles(left, files, contextOk) ELSE left

handleDragOver(a) == [a EXCEPT !.dragActive = TRUE]

handleDragLeave(a) == [a EXCEPT !.dragActive = FALSE]

resetApp(a) == [a EXCEPT !.audioState = Null, !.status = "IDLE", !.errorMsg = Null]

---------------------------------------------------------------------------
(* The state machine: a loaded buffer, and one encoder call at a time *)

NoCall ==
    [fn |-> "none", optStart |-> 0, optEnd |-> 0,
     fadeInDuration |-> 0, fadeOutDuration |-> 0, lamejs |-> FALSE]

Call(fn, optStart, optEnd, fadeInDuration, fadeOutDuration, lamejs) ==
    [fn |-> fn, optStart |-> optStart, optEnd |-> optEnd,
     fadeInDuration |-> fadeInDuration, fadeOutDuration |-> fadeOutDuration,
     lamejs |-> lamejs]

NoSaved == [call |-> NoCall, ret |-> NoRet, who |-> 0]

\* A compressor that buffers its first block and never fails.
NominalCodec == [emptyAt |-> {1}, failAt |-> 0]

\* No call in progress.
CallIdle ==
    /\ pc = "idle"
    /\ call = NoCall
    /\ ret = NoRet
    /\ ps = NoSamples
    /\ dv = NoView
    /\ lameLog = <<>>
    /\ mp3 = NoMp3

\* The components, not mounted.
NoTrimmer == AudioTrimmer(0, FALSE)
NoWaveform == Waveform(0)
NoComponents ==
    /\ trimmer = NoTrimmer
    /\ sound = NoSound(NoTrimmer)
    /\ gallery = {}
    /\ waveform = NoWaveform
    /\ app = App

Idle ==
    /\ CallIdle
    /\ codec = NominalCodec
    /\ encoders = <<>>
    /\ nCalls = 0
    /\ saved = NoSaved
    /\ NoComponents

Init == buffer \in Buffers /\ Idle

Returned(c, r) ==
    /\ pc' = "done"
    /\ call' = c
    /\ ret' = r.ret
    /\ ps' = r.ps
    /\ dv' = r.dv
    /\ lameLog' = r.lameLog
    /\ mp3' = r.mp3
    /\ encoders' = r.encoders
    /\ buffer' = r.buffer
    /\ nCalls' = nCalls + 1
    /\ UNCHANGED <<codec, saved, uiVars>>

\* A call of audioBufferToWav on the loaded buffer.
WavCall(optStart, optEnd, fadeInDuration, fadeOutDuration) ==
    /\ pc = "idle"
    /\ Returned(Call("wav", optStart, optEnd, fadeInDuration, fadeOutDuration, FALSE),
                audioBufferToWav(buffer, optStart, optEnd, fadeInDuration, fadeOutDuration))

\* A call of audioBufferToMp3 on the loaded buffer, window.lamejs being loaded or not.
Mp3Call(lamejs, optStart, optEnd, fadeInDuration, fadeOutDuration) ==
    /\ pc = "idle"
    /\ Returned(Call("mp3", optStart, optEnd, fadeInDuration, fadeOutDuration, lamejs),
                audioBufferToMp3(buffer, lamejs, optStart, optEnd,
                                 fadeInDuration, fadeOutDuration))

ExportWav ==
    \E optStart \in 0..MaxTick, optEnd \in 0..MaxTick,
       fadeIn \in 0..MaxFadeTick, fadeOut \in 0..MaxFadeTick :
        WavCall(optStart, optEnd, fadeIn, fadeOut)

ExportMp3 ==
    \E lamejs \in BOOLEAN, optStart \in 0..MaxTick, optEnd \in 0..MaxTick,
       fadeIn \in 0..MaxFadeTick, fadeOut \in 0..MaxFadeTick :
        Mp3Call(lamejs, optStart, optEnd, fadeIn, fadeOut)

\* The caller drops the result; the processed samples, the view and the
\* compressor instance are garbage.
Release ==
    /\ pc = "done"
    /\ pc' = "idle"
    /\ call' = NoCall
    /\ ret' = NoRet
    /\ ps' = NoSamples
    /\ dv' = NoView
    /\ lameLog' = <<>>
    /\ mp3' = NoMp3
    /\ encoders' = <<>>
    /\ nCalls' = 0
    /\ UNCHANGED <<buffer, codec, saved, uiVars>>

Next == ExportWav \/ ExportMp3 \/ Release

Spec == Init /\ [][Next]_vars

---------------------------------------------------------------------------
(* The block-level specification: buffers long enough to span several       *)
(* compressor blocks, encoded to MP3.                                       *)

\* Rates at which one tick is half a block, and half a block and a bit.
BlockRates == { (blockSize \div 2) * TimeDen, (blockSize \div 2) * TimeDen + 2 }

BlockBuffers ==
    UNION { { AudioBuffer(rate, n, (BlockTicks * rate) \div TimeDen, w) : w \in WaveChoices(n) } :
                rate \in BlockRates, n \in 1..MaxChannels }

InitBlocks == buffer \in BlockBuffers /\ Idle

ExportMp3Blocks ==
    \E optStart \in 0..1, optEnd \in 0..BlockTicks, fadeIn \in 0..1, fadeOut \in 0..1 :
        Mp3Call(TRUE, optStart, optEnd, fadeIn, fadeOut)

NextBlocks == ExportMp3Blocks \/ Release

SpecBlocks == InitBlocks /\ [][NextBlocks]_vars

---------------------------------------------------------------------------
(* The compressor specification: one stereo buffer of several blocks, and a  *)
(* compressor that may return nothing, or throw, at any of its calls.        *)

Codecs ==
    { [emptyAt |-> e, failAt |-> f] : e \in SUBSET (1..MaxLameCalls), f \in 0..MaxLameCalls }

LameBuffers ==
    { b \in BlockBuffers :
        b.numberOfChannels = 2 /\ \A r \in BlockRates : r <= b.sampleRate }

InitLame ==
    /\ buffer \in LameBuffers
    /\ CallIdle
    /\ codec \in Codecs
    /\ encoders = <<>>
    /\ nCalls = 0
    /\ saved = NoSaved
    /\ NoComponents

ExportMp3Lame == \E optEnd \in 0..BlockTicks : Mp3Call(TRUE, 0, optEnd, 0, 0)

NextLame == ExportMp3Lame \/ Release

SpecLame == InitLame /\ [][NextLame]_vars

---------------------------------------------------------------------------
(* The specification of repeated calls: the caller keeps the result of a    *)
(* call and calls again; the compressor instances made so far stay in the   *)
(* state.                                                                   *)

RunBuffers == { b \in Buffers : b.sampleRate = MaxRate /\ b.numberOfChannels <= 2 }

RunCodecs == { NominalCodec, [emptyAt |-> {}, failAt |-> 0] }

RunEnds == { 0, 2, MaxTick }

InitRuns ==
    /\ buffer \in RunBuffers
    /\ CallIdle
    /\ codec \in RunCodecs
    /\ encoders = <<>>
    /\ nCalls = 0
    /\ saved = NoSaved
    /\ NoComponents

WavRun ==
    \E optStart \in 0..1, optEnd \in RunEnds, fadeIn \in 0..1 :
        nCalls < MaxCalls /\ WavCall(optStart, optEnd, fadeIn, 0)

Mp3Run ==
    \E lamejs \in BOOLEAN, optStart \in 0..1, optEnd \in RunEnds, fadeIn \in 0..1 :
        nCalls < MaxCalls /\ Mp3Call(lamejs, optStart, optEnd, fadeIn, 0)

\* The caller keeps the result and is ready to call again.
Keep ==
    /\ pc = "done"
    /\ saved' = [call |-> call, ret |-> ret, who |-> nCalls]
    /\ pc' = "idle"
    /\ call' = NoCall
    /\ ret' = NoRet
    /\ ps' = NoSamples
    /\ dv' = NoView
    /\ lameLog' = <<>>
    /\ mp3' = NoMp3
    /\ UNCHANGED <<buffer, codec, encoders, nCalls, uiVars>>

\* The caller drops the result and is ready to call again.
Drop ==
    /\ pc = "done"
    /\ pc' = "idle"
    /\ call' = NoCall
    /\ ret' = NoRet
    /\ ps' = NoSamples
    /\ dv' = NoView
    /\ lameLog' = <<>>
    /\ mp3' = NoMp3
    /\ UNCHANGED <<buffer, codec, encoders, nCalls, saved, uiVars>>

NextRuns == WavRun \/ Mp3Run \/ Keep \/ Drop

SpecRuns == InitRuns /\ [][NextRuns]_vars

---------------------------------------------------------------------------
(* The AudioTrimmer specification: the component mounted on a file, and the *)
(* events that reach it.                                                    *)

InitTrimmer ==
    /\ buffer \in { b \in Buffers : b.sampleRate = 1 /\ b.numberOfChannels = 1 }
    /\ CallIdle
    /\ codec = NominalCodec
    /\ encoders = <<>>
    /\ nCalls = 0
    /\ saved = NoSaved
    /\ \E hasUri \in BOOLEAN : trimmer = AudioTrimmer(MaxRegionTick, hasUri)
    /\ sound = NoSound(AudioTrimmer(MaxRegionTick, TRUE))
    /\ gallery = {}
    /\ waveform = NoWaveform
    /\ app = App

\* Audio.Sound.createAsync resolves.
LoadSound ==
    /\ ~sound.loaded
    /\ sound' = loadSound(sound)
    /\ UNCHANGED <<coreVars, app, trimmer, gallery, waveform>>

\* onRegionChange={setRegion}: the waveform hands over a region.
SetRegion ==
    \E start \in 0..trimmer.duration, end \in 0..trimmer.duration :
        /\ start < end
        /\ trimmer' = [trimmer EXCEPT !.region = [start |-> start, end |-> end]]
        /\ UNCHANGED <<coreVars, app, sound, gallery, waveform>>

ToggleFadeIn ==
    /\ trimmer' = [trimmer EXCEPT !.fadeInDuration = toggleFade(@)]
    /\ UNCHANGED <<coreVars, app, sound, gallery, waveform>>

ToggleFadeOut ==
    /\ trimmer' = [trimmer EXCEPT !.fadeOutDuration = toggleFade(@)]
    /\ UNCHANGED <<coreVars, app, sound, gallery, waveform>>

SetExportFormat ==
    \E f \in {"mp3", "wav"} :
        /\ trimmer' = [trimmer EXCEPT !.exportFormat = f]
        /\ UNCHANGED <<coreVars, app, sound, gallery, waveform>>

\* The player reports a status with the position p it has reached.
PlaybackStatusUpdate ==
    \E p \in 0..trimmer.duration :
        /\ sound.loaded
        /\ trimmer' = onPlaybackStatusUpdate(trimmer, sound, p).trimmer
        /\ sound' = onPlaybackStatusUpdate(trimmer, sound, p).sound
        /\ UNCHANGED <<coreVars, app, gallery, waveform>>

TogglePlayback ==
    /\ trimmer' = togglePlayback(trimmer, sound).trimmer
    /\ sound' = togglePlayback(trimmer, sound).sound
    /\ UNCHANGED <<coreVars, app, gallery, waveform>>

HandleSeek ==
    \E time \in 0..trimmer.duration :
        /\ trimmer' = handleSeek(trimmer, sound, time).trimmer
        /\ sound' = handleSeek(trimmer, sound, time).sound
        /\ UNCHANGED <<coreVars, app, gallery, waveform>>

\* handleExport: the button is disabled while processing; the alert asks.
HandleExport ==
    /\ ~trimmer.processing
    /\ trimmer.alert = "none"
    /\ trimmer' = [trimmer EXCEPT !.alert = "confirm"]
    /\ UNCHANGED <<coreVars, app, sound, gallery, waveform>>

CancelExport ==
    /\ trimmer.alert = "confirm"
    /\ trimmer' = [trimmer EXCEPT !.alert = "none"]
    /\ UNCHANGED <<coreVars, app, sound, gallery, waveform>>

\* Descargar: downloadProcessedAudio runs to its first await.
ConfirmExport ==
    /\ trimmer.alert = "confirm"
    /\ trimmer' = [trimmer EXCEPT !.alert = "none", !.processing = TRUE,
                                  !.download = trimmer.exportFormat]
    /\ UNCHANGED <<coreVars, app, sound, gallery, waveform>>

\* The awaited platform calls settle and downloadProcessedAudio runs to its end.
FinishDownload ==
    \E permission \in BOOLEAN, srcExists \in BOOLEAN, copyOk \in BOOLEAN,
       copyExists \in BOOLEAN, platform \in {"android", "ios", "web"},
       assetOk \in BOOLEAN, share \in BOOLEAN :
        /\ trimmer.download # "none"
        /\ gallery' = gallery \cup downloadProcessedAudio(trimmer, permission, srcExists, copyOk,
                                                          copyExists, platform, assetOk, share)
        /\ trimmer' = [trimmer EXCEPT
                          !.processing = setProcessing(@, setProcessingCalls(trimmer, permission,
                                                           srcExists, copyOk, copyExists)),
                          !.download = "none"]
        /\ UNCHANGED <<coreVars, app, sound, waveform>>

NextTrimmer ==
    \/ LoadSound \/ SetRegion \/ ToggleFadeIn \/ ToggleFadeOut \/ SetExportFormat
    \/ PlaybackStatusUpdate \/ TogglePlayback \/ HandleSeek
    \/ HandleExport \/ CancelExport \/ ConfirmExport \/ FinishDownload

SpecTrimmer == InitTrimmer /\ [][NextTrimmer]_vars

\* The export path alone, every awaited platform call of a download in
\* progress settling.
NextExport ==
    \/ SetExportFormat \/ ToggleFadeIn
    \/ HandleExport \/ CancelExport \/ ConfirmExport \/ FinishDownload

SpecExport == InitTrimmer /\ [][NextExport]_vars /\ WF_vars(FinishDownload)

---------------------------------------------------------------------------
(* The Waveform specification: the component over a buffer, its parent      *)
(* storing every region it is given, and the pointer events.                *)

InitWaveform ==
    /\ buffer \in { b \in Buffers : b.sampleRate = 1 /\ b.numberOfChannels = 1 }
    /\ CallIdle
    /\ codec = NominalCodec
    /\ encoders = <<>>
    /\ nCalls = 0
    /\ saved = NoSaved
    /\ trimmer = NoTrimmer
    /\ sound = NoSound(NoTrimmer)
    /\ gallery = {}
    /\ \E duration \in WaveDurations : waveform = Waveform(duration)
    /\ app = App

PointerDown ==
    \E x \in PointerXs :
        /\ waveform' = handlePointerDown(waveform, x)
        /\ UNCHANGED <<coreVars, app, trimmer, sound, gallery>>

PointerMove ==
    \E x \in PointerXs :
        /\ waveform' = handlePointerMove(waveform, x)
        /\ UNCHANGED <<coreVars, app, trimmer, sound, gallery>>

PointerUp ==
    /\ waveform' = handlePointerUp(waveform)
    /\ UNCHANGED <<coreVars, app, trimmer, sound, gallery>>

NextWaveform == PointerDown \/ PointerMove \/ PointerUp

SpecWaveform == InitWaveform /\ [][NextWaveform]_vars

---------------------------------------------------------------------------
(* The App specification: the component, the files the user hands it and    *)
(* the decodes they start.                                                  *)

\* No buffer decoded yet.
NoBuffer == AudioBuffer(1, 1, 0, <<1>>)

InitApp == buffer = NoBuffer /\ Idle

\* onChange of the file input.
SelectFiles ==
    \E files \in FileLists, contextOk \in BOOLEAN :
        /\ dropZoneShown(app)
        /\ app' = handleFiles(app, files, contextOk)
        /\ UNCHANGED <<coreVars, trimmer, sound, gallery, waveform>>

DropFiles ==
    \E files \in FileLists, contextOk \in BOOLEAN :
        /\ dropZoneShown(app)
        /\ app' = handleDrop(app, files, contextOk)
        /\ UNCHANGED <<coreVars, trimmer, sound, gallery, waveform>>

DragOver ==
    /\ dropZoneShown(app)
    /\ app' = handleDragOver(app)
    /\ UNCHANGED <<coreVars, trimmer, sound, gallery, waveform>>

DragLeave ==
    /\ dropZoneShown(app)
    /\ app' = handleDragLeave(app)
    /\ UNCHANGED <<coreVars, trimmer, sound, gallery, waveform>>

\* decodeAudioFile resolves.
DecodeResolves ==
    \E b \in DecodedBuffers :
        /\ app.decoding # Null
        /\ app' = decodeResolved(app, b)
        /\ UNCHANGED <<coreVars, trimmer, sound, gallery, waveform>>

\* decodeAudioFile rejects.
DecodeRejects ==
    /\ app.decoding # Null
    /\ app' = catchDecode(app)
    /\ UNCHANGED <<coreVars, trimmer, sound, gallery, waveform>>

\* onReset
ResetApp ==
    /\ trimmerShown(app)
    /\ app' = resetApp(app)
    /\ UNCHANGED <<coreVars, trimmer, sound, gallery, waveform>>

NextApp ==
    \/ SelectFiles \/ DropFiles \/ DragOver \/ DragLeave
    \/ DecodeResolves \/ DecodeRejects \/ ResetApp

SpecApp == InitApp /\ [][NextApp]_vars

---------------------------------------------------------------------------
(* Reading the results back *)

\* Truncation toward zero of n/d (d > 0).
TruncDiv(n, d) == IF n >= 0 THEN n \div d ELSE -((-n) \div d)

\* Comparisons of rationals; every comparison with NaN is false.
RatEq(x, y) == IF IsNaN(x) \/ IsNaN(y) THEN FALSE ELSE x.num * y.den = y.num * x.den
RatLt(x, y) == IF IsNaN(x) \/ IsNaN(y) THEN FALSE ELSE x.num * y.den < y.num * x.den
RatLe(x, y) == IF IsNaN(x) \/ IsNaN(y) THEN FALSE ELSE x.num * y.den <= y.num * x.den

\* A sample scaled to 16 bits and truncated toward zero, before any wrapping.
Scaled(s) == IF s.num < 0 THEN TruncDiv(s.num * 32768, s.den) ELSE TruncDiv(s.num * 32767, s.den)

\* Little-endian fields of a byte sequence, by 0-based offset.
U16At(bytes, offset) == bytes[offset + 1] + 256 * bytes[offset + 2]
S16At(bytes, offset) ==
    IF U16At(bytes, offset) >= 32768 THEN U16At(bytes, offset) - 65536 ELSE U16At(bytes, offset)
U32At(bytes, offset) ==
    bytes[offset + 1] + 256 * bytes[offset + 2] + 65536 * bytes[offset + 3]
        + 16777216 * bytes[offset + 4]

\* The call has returned a Blob.
WavDone == pc = "done" /\ call.fn = "wav" /\ ret.kind = "blob"
Mp3Done == pc = "done" /\ call.fn = "mp3" /\ ret.kind = "blob"
Extracted == WavDone \/ Mp3Done

\* 0 <= start < end <= duration, the duration being length / sampleRate seconds.
ValidRange ==
    /\ 0 <= call.optStart
    /\ call.optStart < call.optEnd
    /\ call.optEnd * buffer.sampleRate <= buffer.length * TimeDen

\* What the call's arguments come to in frames, computed from the arguments.
StartFrame == (call.optStart * buffer.sampleRate) \div TimeDen
EndFrame == (call.optEnd * buffer.sampleRate) \div TimeDen
FadeInFrames == (call.fadeInDuration * buffer.sampleRate) \div TimeDen
FadeOutFrames == (call.fadeOutDuration * buffer.sampleRate) \div TimeDen

\* Every source read of the call falls inside the source.
InSource == StartFrame <= EndFrame /\ EndFrame <= buffer.length

\* The two ramps of the fade envelope at output index i.
RampIn(i) ==
    IF FadeInFrames > 0 /\ i < FadeInFrames THEN Rat(i, FadeInFrames) ELSE Rat(1, 1)
RampOut(i) ==
    IF FadeOutFrames > 0 /\ ps.frameCount - 1 - i < FadeOutFrames
    THEN Rat(ps.frameCount - 1 - i, FadeOutFrames)
    ELSE Rat(1, 1)

\* The source sample behind output index i of channel c (1-based channel).
Source(c, i) == rawDataAt(buffer, c, StartFrame + i)

\* The processed sample of channel c (1-based) at output index i (0-based).
Out(c, i) == ps.processedChannels[c][i + 1]

SameSample(x, y) == (IsNaN(x) /\ IsNaN(y)) \/ RatEq(x, y)

\* The submissions of blocks in the compressor log.
Submissions == SelectSeq(lameLog, LAMBDA e : e.op = "encodeBuffer")

---------------------------------------------------------------------------
(* C1: for a range with 0 <= start < end <= duration the extraction returns *)
(* frameCount = floor(end*rate) - floor(start*rate), one output array per   *)
(* source channel, and every output array has exactly frameCount elements.  *)
C1_FrameCount ==
    (pc = "done" /\ ValidRange /\ (call.fn = "mp3" => call.lamejs)) =>
        /\ ret.kind = "blob"
        /\ ps.frameCount = EndFrame - StartFrame
        /\ ps.sampleRate = buffer.sampleRate
        /\ ps.numChannels = buffer.numberOfChannels
        /\ Len(ps.processedChannels) = buffer.numberOfChannels
        /\ \A c \in 1..buffer.numberOfChannels :
              Len(ps.processedChannels[c]) = EndFrame - StartFrame

\* A multi-channel extraction whose offsets are both rounded down by floor.
C1_Witness ==
    /\ Extracted /\ ValidRange
    /\ buffer.numberOfChannels >= 2
    /\ (call.optStart * buffer.sampleRate) % TimeDen # 0
    /\ (call.optEnd * buffer.sampleRate) % TimeDen # 0
    /\ ps.frameCount >= 2

(* C2: at every output index the applied fade multiplier is the product of  *)
(* the fade-in ramp and the fade-out ramp, also where the two windows       *)
(* overlap; each output sample is the clamped source sample times that      *)
(* product; frameCount 100 with both fades 60 gives (50/60)*(49/60) at 50.  *)
C2_FadeProduct ==
    /\ RatEq(fadeMultiplier(50, 100, 60, 60), Rat(50 * 49, 60 * 60))
    /\ Extracted =>
        \A i \in 0..(ps.frameCount - 1) :
            /\ RatEq(fadeMultiplier(i, ps.frameCount, FadeInFrames, FadeOutFrames),
                     RatMul(RampIn(i), RampOut(i)))
            /\ \A c \in 1..ps.numChannels :
                  SameSample(Out(c, i),
                             clamp(RatMul(Source(c, i), RatMul(RampIn(i), RampOut(i)))))

\* Overlapping fade windows, and an index inside both with an audible sample.
C2_Witness ==
    /\ Extracted /\ ValidRange
    /\ FadeInFrames + FadeOutFrames > ps.frameCount
    /\ \E i \in 1..(ps.frameCount - 2) :
          /\ i < FadeInFrames
          /\ ps.frameCount - 1 - i < FadeOutFrames
          /\ Out(1, i).num # 0

(* C3 as stated: with no fade-out, fadeIn = 0 gives multiplier 1 at index   *)
(* 0, and every fadeIn d > 0 gives multiplier 0 at index 0 and multiplier 1 *)
(* at index floor(d*rate) when that index is inside the clip.               *)
C3_Original ==
    (Extracted /\ call.fadeOutDuration = 0 /\ ps.frameCount >= 1) =>
        /\ call.fadeInDuration = 0 =>
              RatEq(fadeMultiplier(0, ps.frameCount, FadeInFrames, FadeOutFrames), Rat(1, 1))
        /\ call.fadeInDuration > 0 =>
              /\ RatEq(fadeMultiplier(0, ps.frameCount, FadeInFrames, FadeOutFrames), Rat(0, 1))
              /\ FadeInFrames < ps.frameCount =>
                    RatEq(fadeMultiplier(FadeInFrames, ps.frameCount, FadeInFrames, FadeOutFrames),
                          Rat(1, 1))

(* C3 amended: with no fade-out, the multiplier at index 0 is 1 when        *)
(* floor(d*rate) = 0 (d = 0 included) and 0 when floor(d*rate) >= 1; the    *)
(* multiplier at index floor(d*rate), when inside the clip, is 1.  The      *)
(* first output sample is accordingly the clamped source sample, or 0.      *)
C3_FadeBoundary ==
    (Extracted /\ call.fadeOutDuration = 0 /\ ps.frameCount >= 1) =>
        /\ FadeInFrames = 0 =>
              /\ RatEq(fadeMultiplier(0, ps.frameCount, FadeInFrames, FadeOutFrames), Rat(1, 1))
              /\ \A c \in 1..ps.numChannels : SameSample(Out(c, 0), clamp(Source(c, 0)))
        /\ FadeInFrames >= 1 =>
              /\ RatEq(fadeMultiplier(0, ps.frameCount, FadeInFrames, FadeOutFrames), Rat(0, 1))
              /\ InSource => \A c \in 1..ps.numChannels : RatEq(Out(c, 0), Rat(0, 1))
        /\ FadeInFrames < ps.frameCount =>
              /\ RatEq(fadeMultiplier(FadeInFrames, ps.frameCount, FadeInFrames, FadeOutFrames),
                       Rat(1, 1))
              /\ \A c \in 1..ps.numChannels :
                    SameSample(Out(c, FadeInFrames), clamp(Source(c, FadeInFrames)))

\* A fade-in of at least one frame that ends inside the clip, on a source whose
\* first sample is not silent.
C3_Witness ==
    /\ Extracted /\ ValidRange
    /\ call.fadeOutDuration = 0
    /\ FadeInFrames >= 1
    /\ FadeInFrames < ps.frameCount
    /\ Source(1, 0).num # 0
    /\ Out(1, FadeInFrames).num # 0

\* What C4 asks of the 16-bit value v encoded for channel c (1-based), frame i.
C4_Encoded(c, i, v) ==
    /\ -32768 <= v /\ v <= 32767
    /\ IsNaN(Out(c, i)) => v = 0
    /\ ~IsNaN(Out(c, i)) =>
          /\ v = Scaled(Out(c, i))
          /\ RatEq(RatMul(RampIn(i), RampOut(i)), Rat(1, 1)) =>
                /\ RatLt(Rat(1, 1), Source(c, i)) => v = 32767
                /\ RatLt(Source(c, i), Rat(-1, 1)) => v = -32768

C5_WavHeader ==
    WavDone =>
        /\ Len(ret.bytes) = 44 + ps.frameCount * ps.numChannels * 2
        /\ SubSeq(ret.bytes, 1, 4) = <<82, 73, 70, 70>>
        /\ U32At(ret.bytes, 4) = 36 + ps.frameCount * ps.numChannels * 2
        /\ U32At(ret.bytes, 4) = Len(ret.bytes) - 8
        /\ SubSeq(ret.bytes, 9, 12) = <<87, 65, 86, 69>>
        /\ SubSeq(ret.bytes, 13, 16) = <<102, 109, 116, 32>>
        /\ U32At(ret.bytes, 16) = 16
        /\ U16At(ret.bytes, 20) = 1
        /\ U16At(ret.bytes, 22) = ps.numChannels
        /\ U32At(ret.bytes, 24) = ps.sampleRate
        /\ U32At(ret.bytes, 28) = ps.sampleRate * ps.numChannels * 2
        /\ U16At(ret.bytes, 32) = ps.numChannels * 2
        /\ U16At(ret.bytes, 34) = 16
        /\ SubSeq(ret.bytes, 37, 40) = <<100, 97, 116, 97>>
        /\ U32At(ret.bytes, 40) = ps.frameCount * ps.numChannels * 2
        /\ U32At(ret.bytes, 40) = Len(ret.bytes) - 44
        /\ ret.type = "audio/wav"

\* A WAV file of several frames of several channels.
C5_Witness ==
    /\ WavDone /\ ValidRange
    /\ ps.numChannels >= 2
    /\ ps.frameCount >= 3
    /\ U32At(ret.bytes, 40) >= 12

(* C6: in the WAV body the sample of frame i, channel c is the 16-bit word  *)
(* at offset 44 + 2*(i*channels + c); the writes go through the slots in    *)
(* ascending order, frame by frame and channel by channel inside a frame,   *)
(* each slot once, and the cursor ends at the end of the buffer.            *)
C6_Interleaved ==
    WavDone =>
        /\ \A i \in 0..(ps.frameCount - 1) : \A c \in 0..(ps.numChannels - 1) :
              S16At(ret.bytes, 44 + 2 * (i * ps.numChannels + c)) = wavIntSample(Out(c + 1, i))
        /\ Len(dv.writes) = ps.frameCount * ps.numChannels
        /\ \A k \in 1..Len(dv.writes) :
              /\ dv.writes[k].offset = 44 + 2 * (k - 1)
              /\ dv.writes[k].i = (k - 1) \div ps.numChannels
              /\ dv.writes[k].c = (k - 1) % ps.numChannels
        /\ dv.offset = Len(ret.bytes)

\* A body of at least two frames of at least two channels whose first frame
\* holds different values in its two channels.
C6_Witness ==
    /\ WavDone /\ ValidRange
    /\ ps.numChannels >= 2
    /\ ps.frameCount >= 2
    /\ S16At(ret.bytes, 44) # S16At(ret.bytes, 46)
    /\ S16At(ret.bytes, 46) # S16At(ret.bytes, 44 + 2 * ps.numChannels)

\* What C7 asks of the 16-bit value v submitted for channel c (1-based), frame i.
C7_Same(c, i, v) ==
    /\ v = wavIntSample(Out(c, i))
    /\ ~IsNaN(Out(c, i)) => v = Scaled(Out(c, i))

(* C7: both encoders quantize a processed sample to the same integer, the   *)
(* sample times 32768 truncated toward zero below 0 and times 32767         *)
(* truncated toward zero from 0 up: what the MP3 encoder submits for        *)
(* channel c < 2 and frame i is what the WAV encoder stores for that        *)
(* sample, and what the WAV encoder writes for channel c < 2 and frame i is *)
(* what the MP3 encoder makes of that sample.                               *)
C7_SameQuantization ==
    /\ Mp3Done =>
        /\ \A k \in 1..Len(Submissions) :
              /\ \A j \in 1..Len(Submissions[k].left) :
                    C7_Same(1, Submissions[k].i + j - 1, Submissions[k].left[j])
              /\ \A j \in 1..Len(Submissions[k].right) :
                    C7_Same(2, Submissions[k].i + j - 1, Submissions[k].right[j])
        /\ ps.frameCount > 0 =>
              /\ Len(Submissions) > 0
              /\ Len(Submissions[1].left) = ps.frameCount
              /\ ps.numChannels >= 2 => Len(Submissions[1].right) = ps.frameCount
    /\ WavDone =>
        \A k \in 1..Len(dv.writes) :
            dv.writes[k].c < 2 =>
                /\ S16At(ret.bytes, dv.writes[k].offset)
                      = mp3IntSample(Out(dv.writes[k].c + 1, dv.writes[k].i))
                /\ ~IsNaN(Out(dv.writes[k].c + 1, dv.writes[k].i)) =>
                      S16At(ret.bytes, dv.writes[k].offset)
                          = Scaled(Out(dv.writes[k].c + 1, dv.writes[k].i))

\* A stereo MP3 call that submits a negative value that is not a multiple of
\* the scale, and -32768 itself.
C7_Witness ==
    /\ Mp3Done /\ ValidRange
    /\ Len(Submissions) >= 1
    /\ Submissions[1].hasRight
    /\ \E j \in 1..Len(Submissions[1].left) :
          Submissions[1].left[j] < 0 /\ Submissions[1].left[j] > -32768
    /\ \E j \in 1..Len(Submissions[1].right) : Submissions[1].right[j] = -32768

\* The source made of the first two channels of b.
C8_FirstTwo(b) == AudioBuffer(b.sampleRate, 2, b.length, SubSeq(b.waves, 1, 2))

(* C8: the compressor is constructed with min(channels, 2) channels, and   *)
(* what is submitted depends on channels 0 and 1 only: a source of two or   *)
(* more channels leads to exactly the constructor arguments and the         *)
(* sequence of blocks that its first two channels alone lead to (so any two *)
(* sources that agree on rate, range, fades and channels 0 and 1 lead to    *)
(* the same conversation); a mono source submits left blocks only.          *)
C8_ChannelDrop ==
    Mp3Done =>
        /\ lameLog[1].ctor = <<Min(buffer.numberOfChannels, 2), buffer.sampleRate, 128>>
        /\ buffer.numberOfChannels >= 2 =>
              audioBufferToMp3(C8_FirstTwo(buffer), TRUE, call.optStart, call.optEnd,
                               call.fadeInDuration, call.fadeOutDuration).lameLog = lameLog
        /\ \A k \in 1..Len(Submissions) :
              /\ Submissions[k].hasRight = (buffer.numberOfChannels >= 2)
              /\ buffer.numberOfChannels = 1 => Submissions[k].right = <<>>

\* A three-channel source whose third channel differs from both of its first
\* two, encoded in several blocks with the fade-in on.
C8_Witness ==
    /\ Mp3Done /\ ValidRange
    /\ buffer.numberOfChannels = 3
    /\ buffer.waves[3] \notin {buffer.waves[1], buffer.waves[2]}
    /\ call.fadeInDuration > 0
    /\ Len(Submissions) >= 2

(* C9: the submitted blocks partition the frames 0..frameCount-1 in order:  *)
(* ceil(frameCount/1152) submissions, the k-th starting at frame            *)
(* (k-1)*1152, all but the last of 1152 frames, the last of 1..1152 frames, *)
(* none empty, each holding the quantized samples of its frames, the right  *)
(* block of a stereo submission covering the same frames as the left.       *)
C9_BlockPartition ==
    Mp3Done =>
        LET subs == Submissions
            n == Len(subs)
        IN /\ n = (ps.frameCount + 1151) \div 1152
           /\ \A k \in 1..n :
                 /\ subs[k].i = (k - 1) * 1152
                 /\ Len(subs[k].left) = (IF k < n THEN 1152 ELSE ps.frameCount - (n - 1) * 1152)
                 /\ Len(subs[k].left) >= 1 /\ Len(subs[k].left) <= 1152
                 /\ \A j \in 1..Len(subs[k].left) :
                       subs[k].left[j] = mp3IntSample(Out(1, subs[k].i + j - 1))
                 /\ subs[k].hasRight =>
                       /\ Len(subs[k].right) = Len(subs[k].left)
                       /\ \A j \in 1..Len(subs[k].right) :
                             subs[k].right[j] = mp3IntSample(Out(2, subs[k].i + j - 1))

\* A stereo clip of 1153 frames: one whole block and a last block of one frame.
C9_Witness ==
    /\ Mp3Done /\ ValidRange
    /\ ps.frameCount = 1153
    /\ Len(Submissions) = 2
    /\ Submissions[2].hasRight
    /\ Len(Submissions[2].left) = 1

(* C10: a successful MP3 call talks to the compressor in this order: one    *)
(* construction with (min(channels, 2), sampleRate, 128), then the block    *)
(* submissions, then one flush; nothing follows the flush, and the flush    *)
(* is made also when frameCount is 0 and no block is submitted.             *)
C10_CompressorProtocol ==
    Mp3Done =>
        /\ Len(lameLog) >= 2
        /\ lameLog[1].op = "new"
        /\ lameLog[1].ctor = <<Min(buffer.numberOfChannels, 2), buffer.sampleRate, 128>>
        /\ lameLog[Len(lameLog)].op = "flush"
        /\ \A k \in 2..(Len(lameLog) - 1) : lameLog[k].op = "encodeBuffer"
        /\ Len(lameLog) = 2 + (ps.frameCount + 1151) \div 1152
        /\ ps.frameCount = 0 => lameLog = <<lameLog[1], LameFlush>>

\* A call that submits three blocks between the construction and the flush.
C10_Witness ==
    /\ Mp3Done /\ ValidRange
    /\ Len(lameLog) = 5
    /\ lameLog[2].op = "encodeBuffer"
    /\ lameLog[4].op = "encodeBuffer"
    /\ lameLog[5].op = "flush"

---------------------------------------------------------------------------
(* Reading the compressor's side back *)

\* What a new compressor instance answers to the calls of the log, in order:
\* Answers[k] is its answer to lameLog[k + 1].
Answers == [k \in 1..(Len(lameLog) - 1) |-> LameOutput(codec, k, lameLog[k + 1])]

\* The bytes of a sequence of chunks, one chunk after the other.
RECURSIVE Joined(_)
Joined(chunks) ==
    IF Len(chunks) = 0 THEN <<>>
    ELSE Joined(SubSeq(chunks, 1, Len(chunks) - 1)) \o chunks[Len(chunks)]

\* The calls the encoder has to make on the compressor for the call's range:
\* one per block, and the flush.
IntendedCalls == ((EndFrame - StartFrame + 1151) \div 1152) + 1

(* C11: the blob audioBufferToMp3 returns holds the outputs of the block    *)
(* submissions and then of the flush, in the order of the calls, each once, *)
(* the empty ones adding nothing; the accumulated chunks are exactly the    *)
(* non-empty outputs in that order; the blob's type is audio/mp3.           *)
C11_BlobIsConcatenation ==
    Mp3Done =>
        /\ ret.type = "audio/mp3"
        /\ Len(lameLog) = IntendedCalls + 1
        /\ mp3.mp3Data = SelectSeq(Answers, LAMBDA a : a # <<>>)
        /\ \A k \in 1..Len(mp3.mp3Data) : mp3.mp3Data[k] # <<>>
        /\ ret.bytes = Joined(Answers)

\* Three blocks and the flush, with an empty output between two non-empty
\* ones and a non-empty flush output.
C11_Witness ==
    /\ Mp3Done
    /\ Len(Answers) = 4
    /\ Answers[1] # <<>>
    /\ Answers[2] = <<>>
    /\ Answers[3] # <<>>
    /\ Answers[4] # <<>>
    /\ Len(ret.bytes) = 6

(* C12: without the library at window.lamejs the call throws Error and has  *)
(* done nothing: no samples were extracted, no compressor was constructed,  *)
(* nothing was submitted or flushed, and no blob is returned; this is so    *)
(* whatever the range is.                                                   *)
C12_NoLibraryNoWork ==
    (pc = "done" /\ call.fn = "mp3" /\ ~call.lamejs) =>
        /\ ret = Threw("Error")
        /\ ps = NoSamples
        /\ lameLog = <<>>
        /\ mp3 = NoMp3
        /\ encoders = <<>>

\* A call without the library on a range that would have given samples.
C12_Witness ==
    /\ pc = "done" /\ call.fn = "mp3" /\ ~call.lamejs
    /\ ValidRange
    /\ EndFrame - StartFrame >= 2
    /\ ret.kind = "throw"

(* C13: when the compressor throws at one of the calls the encoder makes,   *)
(* the call throws and returns no blob, whatever was accumulated before;    *)
(* the failing call is the last one made, on the one instance the call      *)
(* constructed, and it is made once.  When it throws at none, a blob is     *)
(* returned.                                                                *)
C13_FailurePropagates ==
    (pc = "done" /\ call.fn = "mp3" /\ call.lamejs /\ StartFrame <= EndFrame) =>
        /\ codec.failAt \in 1..IntendedCalls =>
              /\ ret.kind = "throw"
              /\ ret.bytes = <<>>
              /\ Len(lameLog) = codec.failAt + 1
              /\ Len(encoders) = 1
              /\ encoders[1].calls = codec.failAt
        /\ codec.failAt \notin 1..IntendedCalls =>
              /\ ret.kind = "blob"
              /\ Len(lameLog) = IntendedCalls + 1

\* The second of three block submissions throws after the first one's output
\* was accumulated.
C13_Witness ==
    /\ pc = "done" /\ call.fn = "mp3"
    /\ codec.failAt = 2
    /\ IntendedCalls = 4
    /\ mp3.mp3Data # <<>>
    /\ ret.kind = "throw"
    /\ lameLog[Len(lameLog)].op = "encodeBuffer"

(* C14 as stated: a call of either encoder with end <= start, or with a     *)
(* range that reaches outside the source's duration, fails with an error    *)
(* and returns no blob.                                                     *)
C14_InvalidRangeFails ==
    (pc = "done" /\ (call.fn = "mp3" => call.lamejs) /\ ~ValidRange) =>
        /\ ret.kind = "throw"
        /\ ret.bytes = <<>>

(* C15: a call of audioBufferToWav with the source, range and fades of an   *)
(* earlier call of audioBufferToWav returns what the earlier call returned, *)
(* byte for byte and of the same length, whatever calls of either encoder   *)
(* were made before the first or between the two.                           *)
C15_WavDeterministic ==
    (pc = "done" /\ call.fn = "wav" /\ saved.call = call) =>
        /\ ret = saved.ret
        /\ Len(ret.bytes) = Len(saved.ret.bytes)
        /\ \A k \in 1..Len(ret.bytes) : ret.bytes[k] = saved.ret.bytes[k]

\* The first and the third call are the same WAV call with a fade, and the
\* call between them was an MP3 call that constructed a compressor.
C15_Witness ==
    /\ WavDone
    /\ saved.call = call
    /\ saved.who = 1
    /\ nCalls = 3
    /\ Len(encoders) = 1
    /\ call.fadeInDuration > 0
    /\ Len(ret.bytes) > 44 + 4

(* C16: no step of either encoder changes the source: every sample of every *)
(* channel, the sample rate, the channel count and the length of the buffer *)
(* are after the call what they were before it, for calls that return and   *)
(* for calls that throw.                                                    *)
C16_SourceUntouched == [][buffer' = buffer]_vars

\* A third call returns faded and clamped samples, after a call that threw;
\* the source samples behind the faded and the clamped output samples are
\* still what they were.
C16_Witness ==
    /\ Extracted
    /\ nCalls = 3
    /\ saved.ret.kind = "throw"
    /\ call.fadeInDuration > 0
    /\ FadeInFrames >= 1
    /\ \E i \in 0..(ps.frameCount - 1) :
          /\ RatLt(Source(1, i), Rat(-1, 1))
          /\ RatEq(Out(1, i), Rat(-1, 1))
    /\ RatEq(Out(1, 0), Rat(0, 1))
    /\ ~RatEq(Source(1, 0), Rat(0, 1))

(* C17: an MP3 call that follows or precedes another MP3 call constructs an *)
(* instance of its own; all its submissions and its flush go to that        *)
(* instance and nothing else does; no instance is used by a call other than *)
(* the one that constructed it; and the blob it returns is the blob a new   *)
(* instance gives for its blocks, which is what the call returns when it is *)
(* the only call.                                                           *)
C17_OwnCompressor ==
    /\ \A e \in 1..Len(encoders) :
          /\ encoders[e].users \subseteq {encoders[e].owner}
          /\ \A f \in 1..Len(encoders) : encoders[f].owner = encoders[e].owner => f = e
    /\ Mp3Done =>
          /\ mp3.encoder \in 1..Len(encoders)
          /\ encoders[mp3.encoder].owner = nCalls
          /\ encoders[mp3.encoder].calls = Len(lameLog) - 1
          /\ encoders[mp3.encoder].ctor = lameLog[1].ctor
          /\ ret.bytes = Joined(Answers)
          /\ (saved.call = call /\ saved.ret.kind = "blob") => ret = saved.ret

\* Two MP3 calls on different ranges, one after the other, each with a blob
\* that is not empty.
C17_Witness ==
    /\ Mp3Done
    /\ saved.call.fn = "mp3"
    /\ saved.ret.kind = "blob"
    /\ saved.call # call
    /\ saved.call.optEnd # call.optEnd
    /\ saved.ret.bytes # <<>>
    /\ ret.bytes # <<>>
    /\ Len(encoders) = 2
    /\ mp3.encoder = 2

(* C18 as stated: every file AudioTrimmer saves or shares holds the output  *)
(* of the encoder that exportFormat selects (audioBufferToWav for wav,      *)
(* audioBufferToMp3 for mp3), applied to the region and the fades selected  *)
(* when the file leaves the app.                                            *)
C18_ExportIsEncoderOutput ==
    [][\A f \in gallery' \ gallery :
          /\ f.ext = trimmer.download
          /\ f.content = EncodedFile(f.ext, trimmer.region.start, trimmer.region.end,
                                     trimmer.fadeInDuration, trimmer.fadeOutDuration)]_vars

(* C19 as stated: every region Waveform passes to onRegionChange satisfies  *)
(* 0 <= start < end <= duration and end - start >= 0.5 s, for every         *)
(* duration > 0, the parent storing each region it is given.                *)
C19_RegionValid ==
    waveform.emitted =>
        /\ 0 <= waveform.region.start
        /\ waveform.region.start < waveform.region.end
        /\ waveform.region.end <= waveform.duration
        /\ waveform.region.end - waveform.region.start >= minDuration

(* C20 as stated: whenever a playback status update reports a position at   *)
(* or beyond the end of the region selected at that time, the player is     *)
(* repositioned to the start of the region selected at that time.           *)
C20_LoopsToRegionStart ==
    [][\A p \in 0..trimmer.duration :
          ( /\ sound.loaded
            /\ p >= trimmer.region.end
            /\ trimmer' = onPlaybackStatusUpdate(trimmer, sound, p).trimmer
            /\ sound' = onPlaybackStatusUpdate(trimmer, sound, p).sound )
          => sound'.position = trimmer.region.start]_vars

\* The statuses agree with the other state of App.
StatusConsistent ==
    /\ app.status = "READY" => app.audioState # Null
    /\ app.status = "ERROR" => app.errorMsg # Null
    /\ app.status = "LOADING" => app.errorMsg = Null

\* A type outside audio/*.
UnsupportedType(type) == type = <<>> \/ type[1] # "audio/"

(* C21: in every reachable state of App, READY implies an audioState, ERROR  *)
(* implies an errorMsg and LOADING implies no errorMsg; and a selection      *)
(* whose first file has an unsupported type changes errorMsg only, and a     *)
(* drop of such a file leaves status and audioState as they were.            *)
C21_StatusInvariants ==
    /\ []StatusConsistent
    /\ [][\A files \in FileLists \ {Null}, contextOk \in BOOLEAN :
             UnsupportedType(files[1].type) =>
                /\ app' = handleFiles(app, files, contextOk) =>
                      app' = [app EXCEPT !.errorMsg = app'.errorMsg]
                /\ app' = handleDrop(app, files, contextOk) =>
                      /\ app'.status = app.status
                      /\ app'.audioState = app.audioState]_vars

\* After a failed decode, a file of an unsupported type has been selected.
C21_Witness ==
    /\ app.status = "ERROR"
    /\ app.audioState = Null
    /\ app.decoding = Null
    /\ app.errorMsg = Some("Formato de archivo no soportado. Intente mp3, wav, ogg.")

(* C22: every invocation of downloadProcessedAudio sets processing to true; *)
(* whichever way it ends, it ends with processing false; processing is true *)
(* only while an invocation is in progress; and, every awaited platform     *)
(* call settling, processing does not stay true.                            *)
C22_ProcessingEnds ==
    /\ [](trimmer.processing => trimmer.download # "none")
    /\ [][/\ (trimmer.download = "none" /\ trimmer'.download # "none") => trimmer'.processing
          /\ (trimmer.download # "none" /\ trimmer'.download = "none") => ~trimmer'.processing]_vars
    /\ (trimmer.processing ~> ~trimmer.processing)

\* A download has run to its end and left a file.
C22_Witness ==
    /\ trimmer.hasUri
    /\ ~trimmer.processing
    /\ trimmer.download = "none"
    /\ trimmer.alert = "none"
    /\ gallery # {}

====
